---- MODULE Spec2Model ----
(***************************************************************************)
(* Model of app.py (OsduMCPDemo): the snapshot persistence run at import   *)
(* time (load_data / init_data / save_data), the JSON-RPC style dispatcher *)
(* OsduMCPServer.handle_request, and the two HTTP routes mcp_handler       *)
(* (POST /mcp/) and root (GET /).                                          *)
(*                                                                         *)
(* Representation.  A Python/JSON value is a tagged record:                *)
(*   [t |-> "null"], [t |-> "bool", v |-> b], [t |-> "int", v |-> n],      *)
(*   [t |-> "str", v |-> chars],                                           *)
(*   [t |-> "list", v |-> sequence], [t |-> "dict", v |-> function].       *)
(* A Python str is the sequence of its characters, so that startswith and  *)
(* split are computed character by character.  A Python dict that is only  *)
(* looked up by literal keys is a function from those keys; the three      *)
(* stores, whose iteration order is observable, are sequences of entries   *)
(* [k, v] in insertion order.  Floating point payload fields of the seed   *)
(* (location, depths, stations) and the human readable texts of catalog    *)
(* descriptions and of error messages are never inspected by any code and  *)
(* are left out; the concatenations that build an error message are still  *)
(* evaluated, because they can raise.                                      *)
(***************************************************************************)
EXTENDS Integers, Sequences, FiniteSets, TLC

\* ---------------------------------------------------------------- bounds
\* longest list of records per kind in a pre-existing snapshot file
MaxRecs == 2
\* longest text after "greeting://" in a requested uri
MaxTail == 5

\* ------------------------------------------------------- string literals
S_initialize == <<"i", "n", "i", "t", "i", "a", "l", "i", "z", "e">>
S_notifications_initialized == <<"n", "o", "t", "i", "f", "i", "c", "a", "t", "i", "o", "n", "s", "/", "i", "n", "i", "t", "i", "a", "l", "i", "z", "e", "d">>
S_resources_list == <<"r", "e", "s", "o", "u", "r", "c", "e", "s", "/", "l", "i", "s", "t">>
S_resources_read == <<"r", "e", "s", "o", "u", "r", "c", "e", "s", "/", "r", "e", "a", "d">>
S_tools_list == <<"t", "o", "o", "l", "s", "/", "l", "i", "s", "t">>
S_tools_call == <<"t", "o", "o", "l", "s", "/", "c", "a", "l", "l">>
S_prompts_list == <<"p", "r", "o", "m", "p", "t", "s", "/", "l", "i", "s", "t">>
S_prompts_get == <<"p", "r", "o", "m", "p", "t", "s", "/", "g", "e", "t">>
S_greeting_prefix == <<"g", "r", "e", "e", "t", "i", "n", "g", ":", "/", "/">>
S_sep == <<":", "/", "/">>
S_greeting_template == <<"g", "r", "e", "e", "t", "i", "n", "g", ":", "/", "/", "{", "n", "a", "m", "e", "}">>
S_osdu_wells == <<"o", "s", "d", "u", ":", "w", "e", "l", "l", "s">>
S_osdu_trajectories == <<"o", "s", "d", "u", ":", "t", "r", "a", "j", "e", "c", "t", "o", "r", "i", "e", "s">>
S_osdu_casings == <<"o", "s", "d", "u", ":", "c", "a", "s", "i", "n", "g", "s">>
S_add_numbers == <<"a", "d", "d", "_", "n", "u", "m", "b", "e", "r", "s">>
S_get_casings_for_well == <<"g", "e", "t", "_", "c", "a", "s", "i", "n", "g", "s", "_", "f", "o", "r", "_", "w", "e", "l", "l">>
S_list_all_wells == <<"l", "i", "s", "t", "_", "a", "l", "l", "_", "w", "e", "l", "l", "s">>
S_generate_greeting == <<"g", "e", "n", "e", "r", "a", "t", "e", "_", "g", "r", "e", "e", "t", "i", "n", "g">>
S_friendly == <<"f", "r", "i", "e", "n", "d", "l", "y">>
S_formal == <<"f", "o", "r", "m", "a", "l">>
S_casual == <<"c", "a", "s", "u", "a", "l">>
S_write_friendly == <<"W", "r", "i", "t", "e", " ", "a", " ", "w", "a", "r", "m", " ", "a", "n", "d", " ", "f", "r", "i", "e", "n", "d", "l", "y", " ", "g", "r", "e", "e", "t", "i", "n", "g">>
S_write_formal == <<"W", "r", "i", "t", "e", " ", "a", " ", "p", "r", "o", "f", "e", "s", "s", "i", "o", "n", "a", "l", " ", "a", "n", "d", " ", "f", "o", "r", "m", "a", "l", " ", "g", "r", "e", "e", "t", "i", "n", "g">>
S_write_casual == <<"W", "r", "i", "t", "e", " ", "a", " ", "r", "e", "l", "a", "x", "e", "d", " ", "a", "n", "d", " ", "c", "a", "s", "u", "a", "l", " ", "g", "r", "e", "e", "t", "i", "n", "g">>
S_for == <<" ", "f", "o", "r", " ">>
S_dot == <<".">>
S_hello == <<"H", "e", "l", "l", "o", ",", " ">>
S_welcome == <<"!", " ", "W", "e", "l", "c", "o", "m", "e", " ", "t", "o", " ", "t", "h", "e", " ", "M", "C", "P", " ", "d", "e", "m", "o", ".">>
S_well1 == <<"w", "e", "l", "l", "1">>
S_well2 == <<"w", "e", "l", "l", "2">>
S_traj1 == <<"t", "r", "a", "j", "1">>
S_traj2 == <<"t", "r", "a", "j", "2">>
S_casing1 == <<"c", "a", "s", "i", "n", "g", "1">>
S_casing1b == <<"c", "a", "s", "i", "n", "g", "1", "b">>
S_casing2 == <<"c", "a", "s", "i", "n", "g", "2">>
S_Well_A == <<"W", "e", "l", "l", " ", "A">>
S_Well_B == <<"W", "e", "l", "l", " ", "B">>
S_OperatorX == <<"O", "p", "e", "r", "a", "t", "o", "r", "X">>
S_OperatorY == <<"O", "p", "e", "r", "a", "t", "o", "r", "Y">>
S_2_0 == <<"2", ".", "0">>
S_protocolVersion == <<"2", "0", "2", "4", "-", "1", "1", "-", "0", "5">>
S_OsduMCPDemo == <<"O", "s", "d", "u", "M", "C", "P", "D", "e", "m", "o">>
S_1_0_0 == <<"1", ".", "0", ".", "0">>
S_text_plain == <<"t", "e", "x", "t", "/", "p", "l", "a", "i", "n">>
S_application_json == <<"a", "p", "p", "l", "i", "c", "a", "t", "i", "o", "n", "/", "j", "s", "o", "n">>
S_Invalid_JSON == <<"I", "n", "v", "a", "l", "i", "d", " ", "J", "S", "O", "N">>
S_Internal_Server_Error == <<"I", "n", "t", "e", "r", "n", "a", "l", " ", "S", "e", "r", "v", "e", "r", " ", "E", "r", "r", "o", "r">>
S_Data_loaded == <<"D", "a", "t", "a", " ", "l", "o", "a", "d", "e", "d", " ", "s", "u", "c", "c", "e", "s", "s", "f", "u", "l", "l", "y", ".">>
S_Data_failed == <<"D", "a", "t", "a", " ", "f", "a", "i", "l", "e", "d", " ", "t", "o", " ", "l", "o", "a", "d", ".">>
S_name == <<"n", "a", "m", "e">>
S_style == <<"s", "t", "y", "l", "e">>

\* ------------------------------------------------------------ JSON values
JNull == [t |-> "null"]
JInt(n) == [t |-> "int", v |-> n]
JStr(s) == [t |-> "str", v |-> s]
JBool(b) == [t |-> "bool", v |-> b]
JList(l) == [t |-> "list", v |-> l]
JDict(f) == [t |-> "dict", v |-> f]
EmptyDict == JDict(<<>>)

\* the function with the given set of <<key, value>> pairs as its graph
MkDict(pairs) ==
  JDict([k \in {p[1] : p \in pairs} |-> (CHOOSE p \in pairs : p[1] = k)[2]])

\* Python ==, which never raises across types
PyEq(a, b) ==
  /\ a.t = b.t
  /\ (a.t # "null" => a.v = b.v)

\* hashable values can be dict keys; list and dict are not hashable
Hashable(x) == x.t \in {"null", "bool", "int", "str"}

\* ------------------------------------------- outcomes of an evaluation
Raise(c) == [kind |-> "raise", exc |-> c]
Return(x) == [kind |-> "return", value |-> x]

\* d.get(k, default); the receiver must be a dict
DictGet(d, k, default) ==
  IF d.t # "dict" THEN Raise("AttributeError")
  ELSE IF k \in DOMAIN d.v THEN Return(d.v[k]) ELSE Return(default)

\* d[k]; None, int, str and list receivers reject a str key with TypeError
Subscript(d, k) ==
  IF d.t # "dict" THEN Raise("TypeError")
  ELSE IF k \in DOMAIN d.v THEN Return(d.v[k]) ELSE Raise("KeyError")

\* a + b
PyAdd(a, b) ==
  IF a.t = "int" /\ b.t = "int" THEN Return(JInt(a.v + b.v))
  ELSE IF a.t = "str" /\ b.t = "str" THEN Return(JStr(a.v \o b.v))
  ELSE IF a.t = "list" /\ b.t = "list" THEN Return(JList(a.v \o b.v))
  ELSE Raise("TypeError")

\* "literal" + x, the shape of every log line and error message
StrConcat(lit, x) ==
  IF x.t = "str" THEN Return(JStr(lit \o x.v)) ELSE Raise("TypeError")

\* s.startswith(prefix)
StartsWith(s, prefix) ==
  /\ Len(s) >= Len(prefix)
  /\ SubSeq(s, 1, Len(prefix)) = prefix

\* index of the first occurrence of sep in s at or after position i, 0 if none
RECURSIVE Find(_, _, _)
Find(s, sep, i) ==
  IF i + Len(sep) - 1 > Len(s) THEN 0
  ELSE IF SubSeq(s, i, i + Len(sep) - 1) = sep THEN i
  ELSE Find(s, sep, i + 1)

\* s.split(sep): the pieces between the successive occurrences of sep
RECURSIVE Split(_, _)
Split(s, sep) ==
  LET i == Find(s, sep, 1) IN
  IF i = 0 THEN <<s>>
  ELSE <<SubSeq(s, 1, i - 1)>> \o Split(SubSeq(s, i + Len(sep), Len(s)), sep)

\* ----------------------------------------------------------------- state
VARIABLES
  wells,         \* global wells: ordered dict, a sequence of entries [k, v]
  trajectories,  \* global trajectories
  casings,       \* global casings
  persist_file,  \* the file at PERSIST_FILE
  writable,      \* whether PERSIST_FILE can be opened for writing
  pc,            \* position of the process
  exchange,      \* the HTTP exchange being answered, if any
  file0,         \* the file as found when the process started
  stores0        \* the stores before save_data in the round trip

vars == <<wells, trajectories, casings, persist_file, writable, pc, exchange,
          file0, stores0>>

\* ---------------------------------------------------------------- stores
Entry(k, x) == [k |-> k, v |-> x]

\* list(d.values())
Values(d) == [i \in 1..Len(d) |-> d[i].v]
Keys(d) == {d[i].k : i \in 1..Len(d)}

\* d[k] = x on an ordered dict: an existing key keeps its position
SetItem(d, k, x) ==
  IF k \in Keys(d)
  THEN [i \in 1..Len(d) |-> IF d[i].k = k THEN Entry(k, x) ELSE d[i]]
  ELSE Append(d, Entry(k, x))

\* {r['id']: r for r in items}, evaluated left to right from position i
RECURSIVE DictComp(_, _, _)
DictComp(items, i, acc) ==
  IF i > Len(items) THEN Return(acc)
  ELSE LET r == items[i]
           key == Subscript(r, "id")
       IN IF key.kind = "raise" THEN key
          ELSE IF ~Hashable(key.value) THEN Raise("TypeError")
          ELSE DictComp(items, i + 1, SetItem(acc, key.value, r))

\* the comprehension over data.get(kind, []); only a list (or an empty
\* str or dict) can be iterated without the subscript raising
LoadKind(data, kind) ==
  LET lst == DictGet(data, kind, JList(<<>>)) IN
  IF lst.kind = "raise" THEN lst
  ELSE IF lst.value.t = "list" THEN DictComp(lst.value.v, 1, <<>>)
  ELSE IF lst.value.t \in {"str", "dict"} /\ lst.value.v = <<>> THEN Return(<<>>)
  ELSE Raise("TypeError")

\* ------------------------------------------------------------ persistence
\* states of the file at PERSIST_FILE
FileAbsent == [state |-> "absent"]
\* exists, open(PERSIST_FILE, 'r') raises
FileLocked == [state |-> "locked"]
\* exists, json.load raises JSONDecodeError
FileGarbage == [state |-> "garbage"]
FileJson(doc) == [state |-> "json", doc |-> doc]

WellRec(id, facility, operator) ==
  JDict([id |-> JStr(id), facility_name |-> JStr(facility), operator |-> JStr(operator)])
TrajRec(id, well) == JDict([id |-> JStr(id), well_id |-> JStr(well)])
CasingRec(id, well) == JDict([id |-> JStr(id), well_id |-> JStr(well)])

\* the three dict literals of init_data
SeedWells ==
  << Entry(JStr(S_well1), WellRec(S_well1, S_Well_A, S_OperatorX)),
     Entry(JStr(S_well2), WellRec(S_well2, S_Well_B, S_OperatorY)) >>
SeedTrajectories ==
  << Entry(JStr(S_traj1), TrajRec(S_traj1, S_well1)),
     Entry(JStr(S_traj2), TrajRec(S_traj2, S_well2)) >>
SeedCasings ==
  << Entry(JStr(S_casing1), CasingRec(S_casing1, S_well1)),
     Entry(JStr(S_casing1b), CasingRec(S_casing1b, S_well1)),
     Entry(JStr(S_casing2), CasingRec(S_casing2, S_well2)) >>

\* variant: the trajectories are also written under the casings key
SnapshotDocMut(w, t, c) ==
  JDict([wells |-> JList(Values(w)),
         trajectories |-> JList(Values(t)),
         casings |-> JList(Values(t))])

\* the document json.dump writes
SnapshotDoc(w, t, c) ==
  JDict([wells |-> JList(Values(w)),
         trajectories |-> JList(Values(t)),
         casings |-> JList(Values(c))])

\* save_data(): the outcome and the file it leaves
save_data(w, t, c, file, canWrite) ==
  IF canWrite
  THEN [outcome |-> "ok", file |-> FileJson(SnapshotDoc(w, t, c))]
  ELSE [outcome |-> "raise", file |-> file]

\* init_data(): the globals are assigned before save_data runs
init_data(file, canWrite) ==
  LET s == save_data(SeedWells, SeedTrajectories, SeedCasings, file, canWrite) IN
  [outcome |-> s.outcome, wells |-> SeedWells, trajectories |-> SeedTrajectories,
   casings |-> SeedCasings, file |-> s.file]

\* variant: a file that cannot be opened or parsed is replaced by the seed
load_dataMut(w, t, c, file, canWrite) ==
  IF file.state \in {"absent", "locked", "garbage"}
  THEN init_data(file, canWrite)
  ELSE
    LET same == [outcome |-> "raise", wells |-> w, trajectories |-> t,
                 casings |-> c, file |-> file]
        data == file.doc
        nw == LoadKind(data, "wells")
        nt == LoadKind(data, "trajectories")
        nc == LoadKind(data, "casings")
    IN IF nw.kind = "raise" THEN same
       ELSE IF nt.kind = "raise" THEN [same EXCEPT !.wells = nw.value]
       ELSE IF nc.kind = "raise"
         THEN [same EXCEPT !.wells = nw.value, !.trajectories = nt.value]
       ELSE [outcome |-> "ok", wells |-> nw.value, trajectories |-> nt.value,
             casings |-> nc.value, file |-> file]

\* load_data(): every exception is logged and raised again; the three
\* assignments happen one after the other, so an exception in a later
\* comprehension leaves the earlier globals assigned
load_data(w, t, c, file, canWrite) ==
  LET same == [outcome |-> "raise", wells |-> w, trajectories |-> t,
               casings |-> c, file |-> file]
  IN
  IF file.state = "absent" THEN init_data(file, canWrite)
  ELSE IF file.state \in {"locked", "garbage"} THEN same
  ELSE
    LET data == file.doc
        nw == LoadKind(data, "wells")
        nt == LoadKind(data, "trajectories")
        nc == LoadKind(data, "casings")
    IN IF nw.kind = "raise" THEN same
       ELSE IF nt.kind = "raise" THEN [same EXCEPT !.wells = nw.value]
       ELSE IF nc.kind = "raise"
         THEN [same EXCEPT !.wells = nw.value, !.trajectories = nt.value]
       ELSE [outcome |-> "ok", wells |-> nw.value, trajectories |-> nt.value,
             casings |-> nc.value, file |-> file]

\* --------------------------------------------------------------- envelope
ResultEnvelope(result, id) ==
  [jsonrpc |-> JStr(S_2_0), result |-> result, id |-> id]
\* variant: an error envelope that also carries a null result
ErrorEnvelopeMut(code, id) ==
  [jsonrpc |-> JStr(S_2_0), result |-> JNull, error |-> [code |-> code], id |-> id]

ErrorEnvelope(code, id) ==
  [jsonrpc |-> JStr(S_2_0), error |-> [code |-> code], id |-> id]

MethodNotFound == -32601
InvalidParams == -32602
HandlerFailure == -32000

\* ---------------------------------------------------------------- catalog
InitializeResult ==
  JDict([protocolVersion |-> JStr(S_protocolVersion),
         capabilities |-> JDict([resources |-> JDict([supported |-> JBool(TRUE)]),
                                 tools |-> JDict([supported |-> JBool(TRUE)]),
                                 prompts |-> JDict([supported |-> JBool(TRUE)])]),
         serverInfo |-> JDict([name |-> JStr(S_OsduMCPDemo),
                               version |-> JStr(S_1_0_0)])])

\* the list literal of resources/list
resources ==
  << JDict([uri |-> JStr(S_greeting_template), mimeType |-> JStr(S_text_plain)]),
     JDict([uri |-> JStr(S_osdu_wells), mimeType |-> JStr(S_application_json)]),
     JDict([uri |-> JStr(S_osdu_trajectories), mimeType |-> JStr(S_application_json)]),
     JDict([uri |-> JStr(S_osdu_casings), mimeType |-> JStr(S_application_json)]) >>

\* the list literal of tools/list
tools ==
  << JDict([name |-> JStr(S_add_numbers)]),
     JDict([name |-> JStr(S_get_casings_for_well)]),
     JDict([name |-> JStr(S_list_all_wells)]) >>

\* the list literal of prompts/list
prompts ==
  << JDict([name |-> JStr(S_generate_greeting),
            arguments |-> JList(<<
              JDict([name |-> JStr(S_name), required |-> JBool(TRUE)]),
              JDict([name |-> JStr(S_style), required |-> JBool(FALSE)])>>)]) >>

\* --------------------------------------------------------------- handlers
\* the dict literal of resources/read, each lambda already applied
resource_handlers ==
  (S_osdu_wells :> Return(JList(Values(wells))))
  @@ (S_osdu_trajectories :> Return(JList(Values(trajectories))))
  @@ (S_osdu_casings :> Return(JList(Values(casings))))

\* variant: the comprehension without its condition
CasingsFilterMut(tool_params, i, acc) ==
  LET rhs == Subscript(tool_params, "well_id") IN
  IF casings # <<>> /\ rhs.kind = "raise" THEN rhs
  ELSE Return(JList(Values(casings)))

\* [c for c in casings.values() if c['well_id'] == tool_params["well_id"]],
\* from position i; both subscripts are evaluated for every element
RECURSIVE CasingsFilter(_, _, _)
CasingsFilter(tool_params, i, acc) ==
  IF i > Len(casings) THEN Return(JList(acc))
  ELSE LET rec == casings[i].v
           lhs == Subscript(rec, "well_id")
           rhs == Subscript(tool_params, "well_id")
       IN IF lhs.kind = "raise" THEN lhs
          ELSE IF rhs.kind = "raise" THEN rhs
          ELSE CasingsFilter(tool_params, i + 1,
                 IF PyEq(lhs.value, rhs.value) THEN Append(acc, rec) ELSE acc)

\* lambda: tool_params["a"] + tool_params["b"]
AddNumbers(tool_params) ==
  LET a == Subscript(tool_params, "a")
      b == Subscript(tool_params, "b")
  IN IF a.kind = "raise" THEN a
     ELSE IF b.kind = "raise" THEN b
     ELSE PyAdd(a.value, b.value)

\* variant: list_all_wells is listed by tools/list but not dispatched
tool_handlersMut(tool_params) ==
  (S_add_numbers :> AddNumbers(tool_params))
  @@ (S_get_casings_for_well :> CasingsFilter(tool_params, 1, <<>>))

\* the dict literal of tools/call, each lambda already applied
tool_handlers(tool_params) ==
  (S_add_numbers :> AddNumbers(tool_params))
  @@ (S_get_casings_for_well :> CasingsFilter(tool_params, 1, <<>>))
  @@ (S_list_all_wells :> Return(JList(Values(wells))))

\* the dict literal of prompts/get
styles ==
  (S_friendly :> S_write_friendly)
  @@ (S_formal :> S_write_formal)
  @@ (S_casual :> S_write_casual)

\* the resources/read branch
ResourcesRead(params, id) ==
  LET uri == DictGet(params, "uri", JStr(<<>>)) IN
  IF uri.kind = "raise" THEN uri
  ELSE IF uri.value.t # "str" THEN Raise("AttributeError")
  ELSE IF StartsWith(uri.value.v, S_greeting_prefix)
    THEN LET name == Split(uri.value.v, S_sep)[2] IN
         Return(ResultEnvelope(JStr(S_hello \o name \o S_welcome), id))
  ELSE IF uri.value.v \in DOMAIN resource_handlers
    THEN LET result == resource_handlers[uri.value.v] IN
         IF result.kind = "raise"
         THEN Return(ErrorEnvelope(HandlerFailure, id))
         ELSE Return(ResultEnvelope(result.value, id))
  ELSE Return(ErrorEnvelope(InvalidParams, id))

\* the body of the try block of tools/call
ToolTry(tool_id, tool_params) ==
  LET result == tool_handlers(tool_params)[tool_id] IN
  IF result.kind = "raise" THEN result
  ELSE IF tool_id = S_get_casings_for_well /\ result.value.v = <<>>
    THEN LET wid == Subscript(tool_params, "well_id")
             msg == IF wid.kind = "raise" THEN wid
                    ELSE StrConcat(<<>>, wid.value)
         \* raise ValueError("No casings found for well " + tool_params["well_id"])
         IN IF msg.kind = "raise" THEN msg ELSE Raise("ValueError")
  ELSE result

\* the tools/call branch
ToolsCall(params, id) ==
  LET tool_id == DictGet(params, "name", JStr(<<>>))
      tool_params == DictGet(params, "params", EmptyDict)
  IN
  IF tool_id.kind = "raise" THEN tool_id
  ELSE IF ~Hashable(tool_id.value) THEN Raise("TypeError")
  ELSE IF tool_id.value.t = "str"
          /\ tool_id.value.v \in DOMAIN tool_handlers(tool_params.value)
    THEN LET r == ToolTry(tool_id.value.v, tool_params.value) IN
         IF r.kind = "raise"
         THEN Return(ErrorEnvelope(HandlerFailure, id))
         ELSE Return(ResultEnvelope(r.value, id))
  ELSE LET msg == StrConcat(<<>>, tool_id.value) IN
       IF msg.kind = "raise" THEN msg
       ELSE Return(ErrorEnvelope(InvalidParams, id))

\* the prompts/get branch
PromptsGet(params, id) ==
  LET prompt_id == DictGet(params, "name", JStr(<<>>))
      prompt_params == DictGet(params, "params", EmptyDict)
  IN
  IF prompt_id.kind = "raise" THEN prompt_id
  ELSE IF PyEq(prompt_id.value, JStr(S_generate_greeting))
    THEN LET style == DictGet(prompt_params.value, "style", JStr(S_friendly))
             name == DictGet(prompt_params.value, "name", JStr(<<>>))
         IN IF style.kind = "raise" THEN style
            ELSE IF ~Hashable(style.value) THEN Raise("TypeError")
            ELSE LET text == IF style.value.t = "str"
                                /\ style.value.v \in DOMAIN styles
                             THEN styles[style.value.v]
                             ELSE styles[S_friendly]
                     full == StrConcat(text \o S_for, name.value)
                 IN IF full.kind = "raise" THEN full
                    ELSE Return(ResultEnvelope(JStr(full.value.v \o S_dot), id))
  ELSE LET msg == StrConcat(<<>>, prompt_id.value) IN
       IF msg.kind = "raise" THEN msg
       ELSE Return(ErrorEnvelope(InvalidParams, id))

\* OsduMCPServer.handle_request: the envelope returned or the exception raised
handle_request(request) ==
  LET m == DictGet(request, "method", JNull)
      p == DictGet(request, "params", EmptyDict)
      i == DictGet(request, "id", JInt(1))
  IN
  IF m.kind = "raise" THEN m
  ELSE LET method == m.value
           params == p.value
           id == i.value
       IN
       \* "Received request: method=" + method + ...
       IF method.t # "str" THEN Raise("TypeError")
       ELSE IF method.v = S_initialize
         THEN Return(ResultEnvelope(InitializeResult, id))
       ELSE IF method.v = S_notifications_initialized
         THEN Return(ResultEnvelope(EmptyDict, id))
       ELSE IF method.v = S_resources_list
         THEN Return(ResultEnvelope(
                JDict([resources |-> JList(resources), nextCursor |-> JNull]), id))
       ELSE IF method.v = S_resources_read THEN ResourcesRead(params, id)
       ELSE IF method.v = S_tools_list
         THEN Return(ResultEnvelope(JDict([tools |-> JList(tools)]), id))
       ELSE IF method.v = S_tools_call THEN ToolsCall(params, id)
       ELSE IF method.v = S_prompts_list
         THEN Return(ResultEnvelope(JDict([prompts |-> JList(prompts)]), id))
       ELSE IF method.v = S_prompts_get THEN PromptsGet(params, id)
       ELSE Return(ErrorEnvelope(MethodNotFound, id))

\* -------------------------------------------------------------- transport
\* request bodies: bytes that are not UTF-8, text that is not JSON, a JSON text
BadUtf8Body == [enc |-> "bad_utf8"]
BadJsonBody == [enc |-> "bad_json"]
JsonBody(doc) == [enc |-> "json", doc |-> doc]

\* payload.decode()
Decode(body) ==
  IF body.enc = "bad_utf8" THEN Raise("UnicodeDecodeError") ELSE Return(body)

\* json.loads(text)
JsonLoads(text) ==
  IF text.enc = "bad_json" THEN Raise("JSONDecodeError") ELSE Return(text.doc)

\* the try block of mcp_handler followed by its two except clauses
McpResponse(body) ==
  LET text == Decode(body)
      message == IF text.kind = "raise" THEN text ELSE JsonLoads(text.value)
      response == IF message.kind = "raise" THEN message
                  ELSE handle_request(message.value)
  IN IF response.kind = "return"
       THEN [status |-> 200, payload |-> response.value]
     ELSE IF response.exc = "JSONDecodeError"
       THEN [status |-> 400, payload |-> JDict([error |-> JStr(S_Invalid_JSON)])]
     ELSE [status |-> 500,
           payload |-> JDict([error |-> JStr(S_Internal_Server_Error)])]

\* the JSON document root answers with
RootResponse ==
  [status |-> 200,
   payload |-> JDict([
     status |-> IF wells # <<>> \/ trajectories # <<>> \/ casings # <<>>
                THEN JStr(S_Data_loaded) ELSE JStr(S_Data_failed),
     record_counts |-> JDict([wells |-> JInt(Len(wells)),
                              trajectories |-> JInt(Len(trajectories)),
                              casings |-> JInt(Len(casings))])])]

NoExchange == [kind |-> "none"]

\* ------------------------------------------------------------------ inputs
SeqsUpTo(S, n) == UNION {[1..k -> S] : k \in 0..n}

WellRecs == {SeedWells[1].v, SeedWells[2].v}
TrajRecs == {SeedTrajectories[1].v, SeedTrajectories[2].v}
\* the seed casings and a second record under the id casing1
CasingRecs ==
  {SeedCasings[1].v, SeedCasings[2].v, SeedCasings[3].v,
   CasingRec(S_casing1, S_well2)}

\* snapshot files a previous run or an operator may have left
SnapshotDocs ==
  { JDict([wells |-> JList(wt[1]), trajectories |-> JList(wt[2]),
           casings |-> JList(cs)]) :
      wt \in { <<<<>>, <<>>>>,
               <<<<SeedWells[2].v, SeedWells[1].v>>, <<SeedTrajectories[1].v>>>> },
      cs \in SeqsUpTo(CasingRecs, MaxRecs) }

\* documents that parse as JSON but are not a well-formed snapshot
OddDocs ==
  { JList(<<>>),
    JDict([wells |-> JList(Values(SeedWells))]),
    JDict([wells |-> JNull, trajectories |-> JList(<<>>), casings |-> JList(<<>>)]),
    JDict([wells |-> JList(Values(SeedWells)),
           trajectories |-> JList(<<JDict([well_id |-> JStr(S_well1)])>>),
           casings |-> JList(Values(SeedCasings))]),
    JDict([wells |-> JList(Values(SeedWells)),
           trajectories |-> JList(Values(SeedTrajectories)),
           casings |-> JList(<<SeedCasings[1].v, JInt(5)>>)]) }

Files ==
  {FileAbsent, FileLocked, FileGarbage}
  \cup {FileJson(d) : d \in SnapshotDocs \cup OddDocs}

Methods ==
  {S_initialize, S_notifications_initialized, S_resources_list,
   S_resources_read, S_tools_list, S_tools_call, S_prompts_list, S_prompts_get}

\* an optional key of a request: absent, or present with one of the values
Opt(key, values) == {{}} \cup {{<<key, x>>} : x \in values}

IdParts == Opt("id", {JInt(7), JNull})
MethodParts ==
  Opt("method", {JStr(m) : m \in Methods} \cup {JStr(<<"x">>), JInt(5), JNull})

Envelope(parts) == MkDict({<<"jsonrpc", JStr(S_2_0)>>} \cup parts)

\* any method with params absent, of a wrong type, or empty
GeneralRequests ==
  { Envelope(mp \cup pp \cup ip) :
      mp \in MethodParts,
      pp \in Opt("params", {JNull, JInt(0), JList(<<>>), EmptyDict}),
      ip \in IdParts }

UriChars == {"a", ":", "/"}
UriValues ==
  {JStr(S_greeting_prefix \o tl) : tl \in SeqsUpTo(UriChars, MaxTail)}
  \cup {JStr(S_greeting_template), JStr(S_osdu_wells), JStr(S_osdu_trajectories),
        JStr(S_osdu_casings), JStr(<<"o", "s", "d", "u", ":">>), JStr(<<>>),
        JStr(SubSeq(S_greeting_prefix, 1, Len(S_greeting_prefix) - 1)),
        JInt(5), JNull, JList(<<>>)}

ReadRequests ==
  { Envelope({<<"method", JStr(S_resources_read)>>,
              <<"params", MkDict({<<"uri", u>>})>>} \cup ip) :
      u \in UriValues, ip \in {{<<"id", JInt(7)>>}} }

NameValues ==
  {JStr(S_add_numbers), JStr(S_get_casings_for_well), JStr(S_list_all_wells),
   JStr(S_generate_greeting), JStr(<<"x">>), JInt(5), JNull, JList(<<>>)}

\* arguments for the tools: a and b, or well_id
ToolArgs ==
  {JNull, EmptyDict}
  \cup { MkDict(ap \cup bp) :
           ap \in Opt("a", {JInt(2), JInt(-1), JStr(<<"a">>)}),
           bp \in Opt("b", {JInt(3), JInt(1), JStr(<<"b">>)}) }
  \cup { MkDict({<<"well_id", w>>}) :
           w \in {JStr(S_well1), JStr(S_well2), JStr(<<"x">>), JInt(5)} }

\* arguments for the prompt: style and name
PromptArgs ==
  {JNull}
  \cup { MkDict(sp \cup np) :
           sp \in Opt("style", {JStr(S_friendly), JStr(S_formal), JStr(S_casual),
                                JStr(<<"x">>), JInt(5), JList(<<>>)}),
           np \in Opt("name", {JStr(<<"A", "l">>), JInt(5)}) }

CallRequests ==
  { Envelope({<<"method", JStr(ma[1])>>,
              <<"params", MkDict(np \cup ma[2])>>} \cup ip) :
      ma \in ({S_tools_call} \X Opt("params", ToolArgs))
             \cup ({S_prompts_get} \X Opt("params", PromptArgs)),
      np \in Opt("name", NameValues),
      ip \in Opt("id", {JInt(7)}) }

Requests == GeneralRequests \cup ReadRequests \cup CallRequests

Bodies ==
  {BadUtf8Body, BadJsonBody}
  \cup {JsonBody(d) : d \in Requests \cup {JList(<<>>), JInt(5), JNull, JStr(<<"x">>)}}

\* ---------------------------------------------------------------- process
\* module import: the globals are empty dicts and load_data() has not run
\* the file is written only when it is absent, so a location that
\* cannot be written is told apart only there
Init ==
  /\ wells = <<>>
  /\ trajectories = <<>>
  /\ casings = <<>>
  /\ persist_file \in Files
  /\ writable \in (IF persist_file = FileAbsent THEN BOOLEAN ELSE {TRUE})
  /\ pc = "start"
  /\ exchange = NoExchange
  /\ file0 = persist_file
  /\ stores0 = <<>>

\* line 87, load_data() at import: the process serves only if it returns
Startup ==
  /\ pc = "start"
  /\ LET r == load_data(wells, trajectories, casings, persist_file, writable) IN
       /\ wells' = r.wells
       /\ trajectories' = r.trajectories
       /\ casings' = r.casings
       /\ persist_file' = r.file
       /\ pc' = IF r.outcome = "ok" THEN "running" ELSE "failed"
  /\ UNCHANGED <<writable, exchange, file0, stores0>>

\* variant: the handler saves the stores after answering
mcp_handlerMut(body) ==
  /\ pc = "running"
  /\ exchange = NoExchange
  /\ exchange' = [kind |-> "post", body |-> body] @@ McpResponse(body)
  /\ persist_file' =
       save_data(wells, trajectories, casings, persist_file, writable).file
  /\ UNCHANGED <<wells, trajectories, casings, writable, pc, file0, stores0>>

\* POST /mcp/
mcp_handler(body) ==
  /\ pc = "running"
  /\ exchange = NoExchange
  /\ exchange' = [kind |-> "post", body |-> body] @@ McpResponse(body)
  /\ UNCHANGED <<wells, trajectories, casings, persist_file, writable, pc,
                 file0, stores0>>

\* GET /
root ==
  /\ pc = "running"
  /\ exchange = NoExchange
  /\ exchange' = [kind |-> "get"] @@ RootResponse
  /\ UNCHANGED <<wells, trajectories, casings, persist_file, writable, pc,
                 file0, stores0>>

\* the response is sent and the route is free for the next request
Respond ==
  /\ exchange # NoExchange
  /\ exchange' = NoExchange
  /\ UNCHANGED <<wells, trajectories, casings, persist_file, writable, pc,
                 file0, stores0>>

Next ==
  \/ Startup
  \/ \E body \in Bodies : mcp_handler(body)
  \/ root
  \/ Respond

Spec == Init /\ [][Next]_vars

\* ------------------------------------------------- snapshot round trip
\* ordered dicts over the records R with at most MaxRecs distinct keys; the
\* key of an entry is any id of R, not necessarily the id of its record
StoresOver(R) ==
  LET ids == {r.v["id"] : r \in R} IN
  { d \in SeqsUpTo({Entry(k, r) : k \in ids, r \in R}, MaxRecs) :
      \A i, j \in 1..Len(d) : i # j => d[i].k # d[j].k }

\* save_data and load_data applied to store contents of any shape, and
\* init_data applied where there is no file
InitRT ==
  /\ wells \in StoresOver(WellRecs)
  /\ trajectories \in StoresOver(TrajRecs)
  /\ casings \in StoresOver(CasingRecs)
  /\ persist_file = FileAbsent
  /\ writable \in BOOLEAN
  /\ pc = "rt_start"
  /\ exchange = NoExchange
  /\ file0 = persist_file
  /\ stores0 = <<>>

\* init_data() on the missing file
InitDataStep ==
  /\ pc = "rt_start"
  /\ wells = <<>> /\ trajectories = <<>> /\ casings = <<>>
  /\ LET r == init_data(persist_file, writable) IN
       /\ wells' = r.wells
       /\ trajectories' = r.trajectories
       /\ casings' = r.casings
       /\ persist_file' = r.file
       /\ pc' = IF r.outcome = "ok" THEN "rt_seeded" ELSE "failed"
       /\ stores0' = [via |-> "init_data", wells |-> r.wells,
                      trajectories |-> r.trajectories, casings |-> r.casings]
  /\ UNCHANGED <<writable, exchange, file0>>

\* save_data() on the current stores
SaveDataStep ==
  /\ pc = "rt_start"
  /\ LET r == save_data(wells, trajectories, casings, persist_file, writable) IN
       /\ persist_file' = r.file
       /\ pc' = IF r.outcome = "ok" THEN "rt_saved" ELSE "failed"
  /\ stores0' = [via |-> "save_data", wells |-> wells,
                 trajectories |-> trajectories, casings |-> casings]
  /\ UNCHANGED <<wells, trajectories, casings, writable, exchange, file0>>

\* load_data() on the file just written
LoadDataStep ==
  /\ pc \in {"rt_seeded", "rt_saved"}
  /\ LET r == load_data(wells, trajectories, casings, persist_file, writable) IN
       /\ wells' = r.wells
       /\ trajectories' = r.trajectories
       /\ casings' = r.casings
       /\ persist_file' = r.file
       /\ pc' = IF r.outcome = "ok" THEN "rt_loaded" ELSE "failed"
  /\ UNCHANGED <<writable, exchange, file0, stores0>>

NextRT == InitDataStep \/ SaveDataStep \/ LoadDataStep

SpecRT == InitRT /\ [][NextRT]_vars

\* ------------------------------------------------------------- properties
\* the exchange is a POST whose body decoded to a JSON object
IsPost == exchange.kind = "post"
IsObjectPost ==
  /\ IsPost
  /\ exchange.body.enc = "json"
  /\ exchange.body.doc.t = "dict"
Req == exchange.body.doc.v
HasStr(d, k) == k \in DOMAIN d /\ d[k].t = "str"
HasDict(d, k) == k \in DOMAIN d /\ d[k].t = "dict"
\* the POST carries the method m and an object as params
IsCall(m) ==
  /\ IsObjectPost
  /\ HasStr(Req, "method") /\ Req["method"].v = m
  /\ HasDict(Req, "params")
Params == Req["params"].v

\* what was answered
IsResult == exchange.status = 200 /\ "result" \in DOMAIN exchange.payload
IsError(code) ==
  /\ exchange.status = 200
  /\ "error" \in DOMAIN exchange.payload
  /\ "result" \notin DOMAIN exchange.payload
  /\ exchange.payload.error.code = code

ToolNames == {S_add_numbers, S_get_casings_for_well, S_list_all_wells}
CollectionUris == {S_osdu_wells, S_osdu_trajectories, S_osdu_casings}

\* C1: a string method outside the eight recognized ones is answered with
\* an error envelope of code -32601, and a tools/call whose params.name is
\* absent or is not one of the three dispatched tool names is answered with
\* an error envelope of code -32602 and no result.
C1_UnknownMethodAndTool ==
  /\ (IsObjectPost /\ HasStr(Req, "method") /\ Req["method"].v \notin Methods)
       => IsError(MethodNotFound)
  /\ (IsCall(S_tools_call)
      /\ ~(HasStr(Params, "name") /\ Params["name"].v \in ToolNames))
       => IsError(InvalidParams)

\* C2: a POST whose body decodes to a JSON object with a method key is,
\* whatever the values of method, params and id, never answered with the
\* transport-level 500, and an error it carries has code -32601, -32602 or
\* -32000.
C2_NeverPastTransport ==
  (IsObjectPost /\ "method" \in DOMAIN Req)
    => /\ exchange.status # 500
       /\ "error" \in DOMAIN exchange.payload
            => exchange.payload.error.code
                 \in {MethodNotFound, InvalidParams, HandlerFailure}

\* C3: every envelope handle_request returns has jsonrpc "2.0", exactly one
\* of result and error, and the id of the request, or 1 when the request
\* has no id key.
C3_EnvelopeShape ==
  (IsPost /\ exchange.status = 200)
    => /\ exchange.payload.jsonrpc = JStr(S_2_0)
       /\ Cardinality(DOMAIN exchange.payload \cap {"result", "error"}) = 1
       /\ DOMAIN exchange.payload \subseteq {"jsonrpc", "result", "error", "id"}
       /\ IF "id" \in DOMAIN Req
          THEN PyEq(exchange.payload.id, Req["id"])
          ELSE PyEq(exchange.payload.id, JInt(1))

\* an error envelope that answers a request without an id with id 1
C3_Witness ==
  /\ IsObjectPost
  /\ "id" \notin DOMAIN Req
  /\ IsError(InvalidParams)
  /\ exchange.payload.id = JInt(1)

\* positions of the casings whose well_id equals x
Matching(x) ==
  {i \in 1..Len(casings) : PyEq(casings[i].v.v["well_id"], x)}

\* the POST is tools/call of get_casings_for_well with a well_id argument
IsCasingsCall ==
  /\ IsCall(S_tools_call)
  /\ HasStr(Params, "name") /\ Params["name"].v = S_get_casings_for_well
  /\ HasDict(Params, "params")
  /\ "well_id" \in DOMAIN Params["params"].v
WellIdArg == Params["params"].v["well_id"]

\* C4: get_casings_for_well with well_id X returns exactly the casing
\* records whose well_id equals X, each once, when there is one, and an
\* error envelope of code -32000 without result when there is none.
C4_CasingsForWell ==
  IsCasingsCall
    => IF Matching(WellIdArg) # {}
       THEN /\ IsResult
            /\ exchange.payload.result.t = "list"
            /\ LET res == exchange.payload.result.v IN
                 /\ {res[i] : i \in 1..Len(res)}
                      = {casings[i].v : i \in Matching(WellIdArg)}
                 /\ Len(res) = Cardinality(Matching(WellIdArg))
       ELSE IsError(HandlerFailure)

\* on the seed, well1 has casing1 and casing1b and not casing2
C4_Witness ==
  /\ IsCasingsCall
  /\ casings = SeedCasings
  /\ WellIdArg = JStr(S_well1)
  /\ IsResult
  /\ exchange.payload.result = JList(<<SeedCasings[1].v, SeedCasings[2].v>>)

\* C5: a body that fails to parse (undecodable bytes, text that is not
\* JSON) is answered with 400, and 500 is answered only for failures other
\* than a body parse failure.
C5_ParseFailureIs400 ==
  IsPost
    => /\ exchange.body.enc \in {"bad_utf8", "bad_json"} => exchange.status = 400
       /\ exchange.status = 500 => exchange.body.enc = "json"

\* a store as a mapping: its set of <<key, record>> pairs
AsMap(d) == {<<d[i].k, d[i].v>> : i \in 1..Len(d)}

\* the list a snapshot document holds for a kind, empty when the key is absent
DocList(doc, kind) == IF kind \in DOMAIN doc.v THEN doc.v[kind].v ELSE <<>>

\* the store maps each id of the list to the last record listed with it
HoldsList(d, lst) ==
  AsMap(d) = { <<lst[i].v["id"], lst[i]>> : i \in
                 {i \in 1..Len(lst) :
                    \A j \in (i + 1)..Len(lst) : lst[j].v["id"] # lst[i].v["id"]} }

SeedInMemory ==
  wells = SeedWells /\ trajectories = SeedTrajectories /\ casings = SeedCasings
SeedOnDisk ==
  persist_file = FileJson(SnapshotDoc(SeedWells, SeedTrajectories, SeedCasings))
StoresEmpty == wells = <<>> /\ trajectories = <<>> /\ casings = <<>>

\* C6 as claimed: once load_data has ended, a readable snapshot is held in
\* the stores, and an absent or unreadable one (cannot be opened, cannot be
\* parsed) has been replaced by the seed in memory and on disk.
C6_SeedWhenUnreadable ==
  (pc # "start" /\ writable)
    => /\ (pc = "running" /\ file0.state = "json")
            => /\ HoldsList(wells, DocList(file0.doc, "wells"))
               /\ HoldsList(trajectories, DocList(file0.doc, "trajectories"))
               /\ HoldsList(casings, DocList(file0.doc, "casings"))
       /\ file0.state \in {"absent", "locked", "garbage"}
            => SeedInMemory /\ SeedOnDisk

\* C6 amended: a readable snapshot is held in the stores and left as it
\* is; an absent one is replaced by the seed in memory and on disk when the
\* file can be written, and startup fails when it cannot; a snapshot that
\* cannot be opened or parsed makes load_data raise: startup fails with
\* the stores empty and the file untouched, and the process never serves.
C6_FatalWhenUnreadable ==
  pc # "start"
    => /\ (pc = "running" /\ file0.state = "json")
            => /\ HoldsList(wells, DocList(file0.doc, "wells"))
               /\ HoldsList(trajectories, DocList(file0.doc, "trajectories"))
               /\ HoldsList(casings, DocList(file0.doc, "casings"))
               /\ persist_file = file0
       /\ (file0.state = "absent" /\ writable)
            => pc = "running" /\ SeedInMemory /\ SeedOnDisk
       /\ (file0.state = "absent" /\ ~writable)
            => pc = "failed"
       /\ file0.state \in {"locked", "garbage"}
            => pc = "failed" /\ StoresEmpty /\ persist_file = file0

\* startup has failed on a snapshot that does not parse
C6_Witness ==
  /\ pc = "failed"
  /\ file0 = FileGarbage
  /\ persist_file = FileGarbage
  /\ StoresEmpty

\* every record of the store is held under its own id
KeysAreIds(d) == \A i \in 1..Len(d) : PyEq(d[i].k, d[i].v.v["id"])

\* C7: init_data on a missing file followed by load_data leaves the seed in
\* the three stores, and save_data followed by load_data leaves the stores
\* as they were, as mappings from id to record, whenever every record was
\* held under its own id.
C7_RoundTrip ==
  pc = "rt_loaded"
    => /\ stores0.via = "init_data"
            => /\ AsMap(wells) = AsMap(SeedWells)
               /\ AsMap(trajectories) = AsMap(SeedTrajectories)
               /\ AsMap(casings) = AsMap(SeedCasings)
       /\ (/\ stores0.via = "save_data"
           /\ KeysAreIds(stores0.wells)
           /\ KeysAreIds(stores0.trajectories)
           /\ KeysAreIds(stores0.casings))
            => /\ AsMap(wells) = AsMap(stores0.wells)
               /\ AsMap(trajectories) = AsMap(stores0.trajectories)
               /\ AsMap(casings) = AsMap(stores0.casings)

\* two casings and a well were saved and loaded again
C7_Witness ==
  /\ pc = "rt_loaded"
  /\ stores0.via = "save_data"
  /\ KeysAreIds(stores0.wells) /\ Len(stores0.wells) = 1
  /\ KeysAreIds(stores0.trajectories)
  /\ KeysAreIds(stores0.casings) /\ Len(stores0.casings) = 2
  /\ AsMap(casings) = AsMap(stores0.casings)

\* C8: once load_data has returned, no step changes the wells, the
\* trajectories, the casings or the snapshot file.
C8_NoRuntimeWrites ==
  [][pc = "running"
       => /\ wells' = wells
          /\ trajectories' = trajectories
          /\ casings' = casings
          /\ persist_file' = persist_file]_vars

\* a tool call has been answered from stores loaded from a snapshot whose
\* records differ from the stores (one id listed twice)
C8_Witness ==
  /\ pc = "running"
  /\ IsCall(S_tools_call)
  /\ IsResult
  /\ file0.state = "json"
  /\ Len(DocList(file0.doc, "casings")) > Len(casings)

\* the text after the first "://" of a greeting uri
Remainder(uri) == SubSeq(uri, Len(S_greeting_prefix) + 1, Len(uri))

\* C9: resources/read of a uri that starts with "greeting://" answers
\* "Hello, <name>! Welcome to the MCP demo." where name is everything after
\* the first "://", and a uri that is neither a greeting uri nor one of the
\* three collection uris is answered with an error envelope of code -32602.
C9_GreetingVerbatim ==
  (IsCall(S_resources_read) /\ HasStr(Params, "uri"))
    => LET uri == Params["uri"].v IN
       IF StartsWith(uri, S_greeting_prefix)
       THEN /\ IsResult
            /\ exchange.payload.result
                 = JStr(S_hello \o Remainder(uri) \o S_welcome)
       ELSE uri \notin CollectionUris => IsError(InvalidParams)

\* what the three list operations advertise
AdvertisedUris == {resources[i].v["uri"].v : i \in 1..Len(resources)}
AdvertisedTools == {tools[i].v["name"].v : i \in 1..Len(tools)}
AdvertisedPrompts == {prompts[i].v["name"].v : i \in 1..Len(prompts)}

\* C10: every advertised uri is read with a result and no uri other than a
\* greeting uri is read unless advertised; every advertised tool or prompt
\* name is dispatched (never answered with -32602) and every other name is
\* answered with -32602.
C10_CatalogMatchesDispatch ==
  /\ (IsCall(S_resources_read) /\ HasStr(Params, "uri"))
       => LET uri == Params["uri"].v IN
          /\ uri \in AdvertisedUris => IsResult
          /\ (IsResult /\ ~StartsWith(uri, S_greeting_prefix))
               => uri \in AdvertisedUris
  /\ (IsCall(S_tools_call) /\ HasStr(Params, "name"))
       => IF Params["name"].v \in AdvertisedTools
          THEN ~IsError(InvalidParams)
          ELSE IsError(InvalidParams)
  /\ (IsCall(S_prompts_get) /\ HasStr(Params, "name"))
       => IF Params["name"].v \in AdvertisedPrompts
          THEN ~IsError(InvalidParams)
          ELSE IsError(InvalidParams)

\* the advertised tool list_all_wells has been dispatched
C10_Witness ==
  /\ IsCall(S_tools_call)
  /\ HasStr(Params, "name") /\ Params["name"].v = S_list_all_wells
  /\ IsResult
  /\ exchange.payload.result = JList(Values(wells))
====
